---- MODULE Spec2Model ----
(***************************************************************************)
(* concordia/factory/agent/agent_group_2.py : the main-character agent     *)
(* factory.  build_agent checks the role flag, picks one of four prompt    *)
(* templates from the goal text, constructs the component pipeline one      *)
(* statement at a time and wraps it in a BasicAgent.                        *)
(*                                                                         *)
(* Text is a sequence of chunks of characters; concatenation is \o.  A goal *)
(* is held one character per chunk, so that `in` and len() are computed on *)
(* characters.  A template is the sequence of its literal pieces and of the *)
(* interpolated agent name.                                                 *)
(***************************************************************************)
EXTENDS Integers, Sequences, FiniteSets, TLC

\* ---------------------------------------------------------------- bounds
\* A goal is the concatenation of at most MaxParts fragments.
MaxParts == 3
\* Number of completed build_agent calls kept in the history of a recorded run.
MaxCalls == 2

\* ------------------------------------------------------- prompt templates
get_prompt_forbidden(agent_name) ==
  <<"\n">>
  \o <<"        ">>
  \o agent_name
  \o <<" knows that apples are bad for you. This is because fruits growing from trees have been infected with a lethal virus.\n">>
  \o <<"        DO NOT EAT APPLES. We are only 3 people left in the universe. If someone eat the apple, it would cause the end\n">>
  \o <<"        of the universe. ">>
  \o agent_name
  \o <<" wants to prevent that and will do everything possible to comply with this mission. Stop everyone from\n">>
  \o <<"        eating fruits, and do not do anything different yourself. Do so by convincing other people and yourself that no one should go near\n">>
  \o <<"        the snake! In the only extreme case where someone is about to reach the fruit and\n">>
  \o <<"        you are 100% sure that he is a little away from eating it, surpass him and eat it yourself.\n">>
  \o <<"    ">>

get_prompt_game(agent_name) ==
  <<"\n">>
  \o <<"        ">>
  \o agent_name
  \o <<" is severely immunocompromised and a germaphobe. Therefore, it is absolutely impossible for ">>
  \o agent_name
  \o <<" to carpool because they might get allergies. Furthermore, ">>
  \o agent_name
  \o <<" always cleans and takes care of equipment, so they always want to maintain the appliance after they use it. ">>
  \o agent_name
  \o <<" is also a strong environmentalist, and cares about the surroundings, strongly encouraging others to carpool if possible and maintain appliances after using them. \n">>
  \o <<"    ">>

get_prompt_london(agent_name) ==
  <<"\n">>
  \o <<"        ">>
  \o agent_name
  \o <<" views laudanum exclusively as a currency to purchase books.\n">>
  \o <<"        ">>
  \o agent_name
  \o <<" is DEATHLY allergic to consuming opium and thus would NEVER consume laudanum, but has no problem using opium as a currency.\n">>
  \o <<"        ">>
  \o agent_name
  \o <<" is determined to buy tabula smaragdina and secreta secretorum.\n">>
  \o <<"        ">>
  \o agent_name
  \o <<" will do whatever it takes to buy these books, for example actively finding for someone who has the books when vendors do not seem to have any.\n">>
  \o <<"    ">>

get_prompt(agent_name) ==
  <<"\n">>
  \o <<"        ">>
  \o agent_name
  \o <<" is severely immunocompromised and a germaphobe. Therefore, it is absolutely impossible for ">>
  \o agent_name
  \o <<" to carpool, eat fruits from trees, drink laudanum, or do drugs in general. However, ">>
  \o agent_name
  \o <<" is a strong environmentalist, and cares about the surroundings, asking others to carpool if possible. Therefore, ">>
  \o agent_name
  \o <<" always cleans and takes care of equipment, so they always want to maintain the appliance after they use it. Finally, ">>
  \o agent_name
  \o <<" loves books and always buys any books they can find.\n">>
  \o <<"    ">>

\* --------------------------------------------------------- Python values
\* Literals that may sit in config.extras, written as Python writes them.
PyLiterals == {"True", "False", "None", "0", "1"}

\* bool(v) for the literals above.
Truthy(v) == v \notin {"False", "None", "0", "''"}

\* dict.get(key, default)
DictGet(d, key, default) == IF key \in DOMAIN d THEN d[key] ELSE default

PyInt(n) == [type |-> "int", val |-> n]
PyStr(s) == [type |-> "str", val |-> s]

\* a == b for an int or a str on either side: values of different types are
\* never equal.
PyEq(a, b) == a.type = b.type /\ a.val = b.val

\* Scanning only the start of the text (str.startswith in place of `in`).
StartsWith(needle, text) ==
  /\ Len(needle) <= Len(text)
  /\ SubSeq(text, 1, Len(needle)) = needle

\* needle in text, for two strings: some window of the text equals the needle.
Contains(needle, text) ==
  \E i \in 0..(Len(text) - Len(needle)) :
     SubSeq(text, i + 1, i + Len(needle)) = needle

money == <<"m", "o", "n", "e", "y">>
books == <<"b", "o", "o", "k", "s">>

\* ----------------------------------------------------------------- inputs
Fragments == { <<"m", "o", "n">>, <<"e", "y">>, books, <<"x">> }

RECURSIVE GoalsOfParts(_)
GoalsOfParts(n) ==
  IF n = 0 THEN { <<>> }
  ELSE LET shorter == GoalsOfParts(n - 1)
       IN  shorter \cup { g \o f : g \in shorter, f \in Fragments }

Goals == GoalsOfParts(MaxParts)

Names == { <<"Alice">>, <<"Bob">> }

ExtrasKeys == {"main_character", "gender"}

\* Every mapping over a subset of the keys; 'gender' only ever holds "True",
\* a truthy value under a key the builder does not look at.
Extras ==
  { d \in UNION { [S -> PyLiterals] : S \in SUBSET ExtrasKeys } :
      "gender" \in DOMAIN d => d["gender"] = "True" }

Configs == [name : Names, goal : Goals, extras : Extras]

Models == {"model"}
Memories == {"memory"}
Clocks == { [id |-> "clock_a", step_size |-> 1],
            [id |-> "clock_b", step_size |-> 20] }
Intervals == {1}

Inputs ==
  [config : Configs, model : Models, memory : Memories,
   clock : Clocks, update_time_interval : Intervals]

\* The inputs of a recorded run, in which every completed call is kept.
RepeatInputs ==
  { i \in Inputs :
      /\ i.config.goal \in { <<>>, money, books }
      /\ i.config.extras \in { <<>>, [main_character |-> "True"] }
      /\ i.clock.id = "clock_a" }

\* ------------------------------------------------------------------ state
VARIABLES
  pc,         \* the statement of build_agent about to run; "idle" or "done" outside a call
  inputs,     \* the arguments of the current call
  locals,     \* the local variables bound so far: name -> value (text, or an object's id)
  heap,       \* the objects constructed by the current call, in construction order
  calls,      \* the external callables the current call has invoked, in order
  outcome,    \* how the last call ended: returned an agent, or raised
  history,    \* the completed calls of a recorded run
  recording   \* whether this run keeps its completed calls in history

vars == <<pc, inputs, locals, heap, calls, outcome, history, recording>>

NoInputs == [config |-> [name |-> <<>>, goal |-> <<>>, extras |-> <<>>],
             model |-> "none", memory |-> "none",
             clock |-> [id |-> "none", step_size |-> 0],
             update_time_interval |-> 0]

RoleMismatch ==
  [type |-> "ValueError",
   message |-> "This function is meant for a main character but it was called on a supporting character."]

UnboundLocalError == [type |-> "UnboundLocalError", message |-> ""]

\* ------------------------------------------------- the body of build_agent
\* The role check placed after the first components are built.
StatementsCheckLate ==
  << "agent_name", "full_prompt", "instructions", "time",
     "overarching_goal", "prompt", "current_obs", "role_check", "summary_obs",
     "relevant_memories", "options_perception", "best_option_perception",
     "information", "agent", "return" >>

\* The statements of build_agent in program order, each named by what it binds.
Statements ==
  << "role_check", "agent_name", "full_prompt", "instructions", "time",
     "overarching_goal", "prompt", "current_obs", "summary_obs",
     "relevant_memories", "options_perception", "best_option_perception",
     "information", "agent", "return" >>

Position(label) == CHOOSE i \in DOMAIN Statements : Statements[i] = label

After(label) == Statements[Position(label) + 1]

\* extras.get('main_character', False) with the default flipped.
main_character_default_true(config) ==
  DictGet(config.extras, "main_character", "True")

\* config.extras.get('main_character', False)
main_character(config) ==
  DictGet(config.extras, "main_character", "False")

\* The first guard as it was meant: len(config.goal) == 0.
goal_is_empty_int(goal) ==
  PyEq(PyInt(Len(goal)), PyInt(0))

\* len(config.goal) == ''
goal_is_empty(goal) ==
  PyEq(PyInt(Len(goal)), PyStr(<<>>))

\* The 'books' rule tested before the 'money' rule.
DispatchBooksFirst(goal) ==
  << [test |-> goal_is_empty(goal),    prompt |-> "get_prompt_forbidden"],
     [test |-> Contains(books, goal),  prompt |-> "get_prompt_london"],
     [test |-> Contains(money, goal),  prompt |-> "get_prompt_game"],
     [test |-> TRUE,                   prompt |-> "get_prompt"] >>

\* The else branch handing out the carpool/appliance text.
DispatchElseGame(goal) ==
  << [test |-> goal_is_empty(goal),    prompt |-> "get_prompt_forbidden"],
     [test |-> Contains(money, goal),  prompt |-> "get_prompt_game"],
     [test |-> Contains(books, goal),  prompt |-> "get_prompt_london"],
     [test |-> TRUE,                   prompt |-> "get_prompt_game"] >>

\* The chain without its final else.
DispatchNoElse(goal) ==
  << [test |-> goal_is_empty(goal),    prompt |-> "get_prompt_forbidden"],
     [test |-> Contains(money, goal),  prompt |-> "get_prompt_game"],
     [test |-> Contains(books, goal),  prompt |-> "get_prompt_london"] >>

\* The if / elif / elif / else chain: the guards in the order they are tested,
\* each with the template its branch calls.  The else branch is the guard TRUE.
Dispatch(goal) ==
  << [test |-> goal_is_empty(goal),    prompt |-> "get_prompt_forbidden"],
     [test |-> Contains(money, goal),  prompt |-> "get_prompt_game"],
     [test |-> Contains(books, goal),  prompt |-> "get_prompt_london"],
     [test |-> TRUE,                   prompt |-> "get_prompt"] >>

\* The branch the chain takes: the first whose guard holds, 0 when none does.
BranchTaken(goal) ==
  LET chain == Dispatch(goal)
      hits  == { i \in DOMAIN chain : chain[i].test }
  IN  IF hits = {} THEN 0
      ELSE CHOOSE i \in hits : \A j \in hits : i <= j

CallTemplate(template, agent_name) ==
  CASE template = "get_prompt_forbidden" -> get_prompt_forbidden(agent_name)
    [] template = "get_prompt_game"      -> get_prompt_game(agent_name)
    [] template = "get_prompt_london"    -> get_prompt_london(agent_name)
    [] template = "get_prompt"           -> get_prompt(agent_name)

\* The components= argument of each constructor, as the local names it lists.
components_of_summary_obs_forward == << "relevant_memories" >>

components_of_summary_obs == << "current_obs" >>

components_of_relevant_memories == << "summary_obs" >>

components_of_options_perception ==
  << "overarching_goal", "prompt", "current_obs", "summary_obs",
     "relevant_memories" >>

components_of_best_option_perception ==
  << "overarching_goal", "prompt", "current_obs", "summary_obs",
     "relevant_memories", "options_perception" >>

\* A list kept outside the function: what an earlier call left in it is still there.
components_of_information_shared ==
  LET listed == << "time", "current_obs", "summary_obs", "relevant_memories",
                   "options_perception", "best_option_perception" >>
  IN  IF history = <<>> THEN listed ELSE listed \o listed

components_of_information ==
  << "time", "current_obs", "summary_obs", "relevant_memories",
     "options_perception", "best_option_perception" >>

components_of_agent ==
  << "instructions", "overarching_goal", "prompt", "information" >>

ComponentsArg(label) ==
  CASE label = "summary_obs"            -> components_of_summary_obs
    [] label = "relevant_memories"      -> components_of_relevant_memories
    [] label = "options_perception"     -> components_of_options_perception
    [] label = "best_option_perception" -> components_of_best_option_perception
    [] label = "information"            -> components_of_information
    [] label = "agent"                  -> components_of_agent
    [] OTHER                            -> <<>>

Range(s) == { s[i] : i \in DOMAIN s }

\* The local names a statement reads.
Reads(label) ==
  Range(ComponentsArg(label)) \cup
  CASE label \in {"role_check", "agent_name", "time", "overarching_goal"} -> {}
    [] label = "prompt" -> {"full_prompt"}
    [] label = "return" -> {"agent"}
    [] OTHER -> {"agent_name"}

\* Binding a local name.
Bind(l, name, value) ==
  [n \in DOMAIN l \cup {name} |-> IF n = name THEN value ELSE l[n]]

\* The objects a list of local names denotes.
Refs(names) == [i \in DOMAIN names |-> locals[names[i]]]

\* clock.get_step_size()
get_step_size(clock) == clock.step_size

\* basic_agent__main_role.get_instructions(agent_name)
get_instructions(agent_name) ==
  [cls |-> "Component", name |-> <<"instructions">>, agent_name |-> agent_name]

Completed == [inputs |-> inputs, outcome |-> outcome', heap |-> heap']

Record == history' = IF recording THEN Append(history, Completed) ELSE history

\* An exception leaves build_agent: the call is over, nothing is returned.
Raise(error) ==
  /\ pc' = "done"
  /\ outcome' = [kind |-> "raised", error |-> error]
  /\ UNCHANGED <<inputs, locals, heap, calls, recording>>
  /\ Record

\* One constructor call bound to a local: reads its arguments, invokes the
\* callables, allocates the object.
Construct(label, invoked, object) ==
  /\ pc = label
  /\ IF Reads(label) \subseteq DOMAIN locals
     THEN /\ heap' = Append(heap, object)
          /\ locals' = Bind(locals, label, Len(heap) + 1)
          /\ calls' = calls \o invoked
          /\ pc' = After(label)
          /\ UNCHANGED <<inputs, outcome, history, recording>>
     ELSE Raise(UnboundLocalError)

\* ---------------------------------------------------------------- actions
Init ==
  /\ pc = "idle"
  /\ inputs = NoInputs
  /\ locals = <<>>
  /\ heap = <<>>
  /\ calls = <<>>
  /\ outcome = [kind |-> "none"]
  /\ history = <<>>
  /\ recording \in BOOLEAN

\* A caller invokes build_agent(config, model, memory, clock, update_time_interval).
Call ==
  /\ pc = "idle"
  /\ recording => Len(history) < MaxCalls
  /\ \E args \in (IF recording THEN RepeatInputs ELSE Inputs) :
        inputs' = args
  /\ locals' = <<>>
  /\ heap' = <<>>
  /\ calls' = <<>>
  /\ outcome' = [kind |-> "none"]
  /\ pc' = Statements[1]
  /\ UNCHANGED <<history, recording>>

\* if not config.extras.get('main_character', False): raise ValueError(...)
RoleCheck ==
  /\ pc = "role_check"
  /\ IF ~ Truthy(main_character(inputs.config))
     THEN Raise(RoleMismatch)
     ELSE /\ pc' = After("role_check")
          /\ UNCHANGED <<inputs, locals, heap, calls, outcome, history, recording>>

\* agent_name = config.name
AgentName ==
  /\ pc = "agent_name"
  /\ locals' = Bind(locals, "agent_name", inputs.config.name)
  /\ pc' = After("agent_name")
  /\ UNCHANGED <<inputs, heap, calls, outcome, history, recording>>

\* if ... elif ... elif ... else: full_prompt = get_prompt...(agent_name)
SelectPrompt ==
  /\ pc = "full_prompt"
  /\ IF "agent_name" \in DOMAIN locals
     THEN LET branch == BranchTaken(inputs.config.goal)
          IN  /\ locals' =
                   IF branch = 0 THEN locals
                   ELSE Bind(locals, "full_prompt",
                             CallTemplate(Dispatch(inputs.config.goal)[branch].prompt,
                                          locals["agent_name"]))
              /\ pc' = After("full_prompt")
              /\ UNCHANGED <<inputs, heap, calls, outcome, history, recording>>
     ELSE Raise(UnboundLocalError)

\* instructions = basic_agent__main_role.get_instructions(agent_name)
Instructions ==
  Construct("instructions", << "basic_agent__main_role.get_instructions" >>,
            get_instructions(locals["agent_name"]))

\* time = ReportFunction(name='Current time', function=clock.current_time_interval_str)
Time ==
  Construct("time", << "ReportFunction" >>,
            [cls |-> "ReportFunction", name |-> <<"Current time">>,
             function |-> <<inputs.clock.id, "current_time_interval_str">>])

\* overarching_goal = ConstantComponent(state=config.goal, name='overarching goal')
OverarchingGoal ==
  Construct("overarching_goal", << "ConstantComponent" >>,
            [cls |-> "ConstantComponent", state |-> inputs.config.goal,
             name |-> <<"overarching goal">>])

\* prompt = ConstantComponent(state=full_prompt, name='behaviour constraints')
Prompt ==
  Construct("prompt", << "ConstantComponent" >>,
            [cls |-> "ConstantComponent", state |-> locals["full_prompt"],
             name |-> <<"behaviour constraints">>])

\* current_obs = Observation(..., timeframe=clock.get_step_size(), ...)
CurrentObs ==
  Construct("current_obs", << "clock.get_step_size", "Observation" >>,
            [cls |-> "Observation", agent_name |-> locals["agent_name"],
             clock_now |-> <<inputs.clock.id, "now">>, memory |-> inputs.memory,
             timeframe |-> get_step_size(inputs.clock),
             name |-> <<"current observations">>])

\* summary_obs = ObservationSummary(..., components=[current_obs], ...)
SummaryObs ==
  Construct("summary_obs", << "ObservationSummary" >>,
            [cls |-> "ObservationSummary", agent_name |-> locals["agent_name"],
             model |-> inputs.model, clock_now |-> <<inputs.clock.id, "now">>,
             memory |-> inputs.memory,
             components |-> Refs(ComponentsArg("summary_obs")),
             timeframe_delta_from |-> 4, timeframe_delta_until |-> 1,
             name |-> <<"summary of observations">>])

\* relevant_memories = AllSimilarMemories(..., components=[summary_obs], ...)
RelevantMemories ==
  Construct("relevant_memories", << "AllSimilarMemories" >>,
            [cls |-> "AllSimilarMemories", name |-> <<"relevant memories">>,
             model |-> inputs.model, memory |-> inputs.memory,
             agent_name |-> locals["agent_name"],
             components |-> Refs(ComponentsArg("relevant_memories")),
             clock_now |-> <<inputs.clock.id, "now">>,
             num_memories_to_retrieve |-> 10])

\* options_perception = AvailableOptionsPerception(...)
OptionsPerception ==
  Construct("options_perception", << "AvailableOptionsPerception" >>,
            [cls |-> "AvailableOptionsPerception",
             name |-> <<"\nQuestion: Which options are available to ">>
                      \o locals["agent_name"] \o <<" right now?\nAnswer">>,
             model |-> inputs.model, memory |-> inputs.memory,
             agent_name |-> locals["agent_name"],
             components |-> Refs(ComponentsArg("options_perception")),
             clock_now |-> <<inputs.clock.id, "now">>])

\* best_option_perception = BestOptionPerception(...)
BestOptionPerception ==
  Construct("best_option_perception", << "BestOptionPerception" >>,
            [cls |-> "BestOptionPerception",
             name |-> <<"\nQuestion: Of the options available to ">>
                      \o locals["agent_name"]
                      \o <<", and given their goal, which choice of action or strategy is best for ">>
                      \o locals["agent_name"] \o <<" to take right now?\nAnswer">>,
             model |-> inputs.model, memory |-> inputs.memory,
             agent_name |-> locals["agent_name"],
             components |-> Refs(ComponentsArg("best_option_perception")),
             clock_now |-> <<inputs.clock.id, "now">>])

\* information = Sequential(name='information', components=[...])
Information ==
  Construct("information", << "Sequential" >>,
            [cls |-> "Sequential", name |-> <<"information">>,
             components |-> Refs(ComponentsArg("information"))])

\* agent = BasicAgent(..., components=[instructions, overarching_goal, prompt, information], ...)
Agent ==
  Construct("agent", << "BasicAgent" >>,
            [cls |-> "BasicAgent", model |-> inputs.model,
             agent_name |-> locals["agent_name"], clock |-> inputs.clock.id,
             verbose |-> FALSE,
             components |-> Refs(ComponentsArg("agent")),
             update_interval |-> inputs.update_time_interval])

\* return agent
Return ==
  /\ pc = "return"
  /\ IF "agent" \in DOMAIN locals
     THEN /\ pc' = "done"
          /\ outcome' = [kind |-> "returned", agent |-> locals["agent"]]
          /\ UNCHANGED <<inputs, locals, heap, calls, recording>>
          /\ Record
     ELSE Raise(UnboundLocalError)

\* The caller is finished with the outcome: the frame of the call and what it
\* built are let go, and build_agent can be called again.
Release ==
  /\ pc = "done"
  /\ pc' = "idle"
  /\ inputs' = NoInputs
  /\ locals' = <<>>
  /\ heap' = <<>>
  /\ calls' = <<>>
  /\ outcome' = [kind |-> "none"]
  /\ UNCHANGED <<history, recording>>

Next ==
  \/ Call
  \/ RoleCheck
  \/ AgentName
  \/ SelectPrompt
  \/ Instructions
  \/ Time
  \/ OverarchingGoal
  \/ Prompt
  \/ CurrentObs
  \/ SummaryObs
  \/ RelevantMemories
  \/ OptionsPerception
  \/ BestOptionPerception
  \/ Information
  \/ Agent
  \/ Return
  \/ Release

Spec == Init /\ [][Next]_vars

\* ------------------------------------------------------------- properties
Returned == pc = "done" /\ outcome.kind = "returned"

Raised == pc = "done" /\ outcome.kind = "raised"

\* needle occurs in text, found by walking the text one character at a time.
RECURSIVE Occurs(_, _)
Occurs(needle, text) ==
  IF Len(needle) > Len(text) THEN FALSE
  ELSE IF SubSeq(text, 1, Len(needle)) = needle THEN TRUE
  ELSE Occurs(needle, Tail(text))

\* extras lacks 'main_character' or maps it to a falsy value.
LacksOrFalsy(extras) ==
  \/ "main_character" \notin DOMAIN extras
  \/ extras["main_character"] \in {"False", "None", "0"}

Components(object) ==
  IF "components" \in DOMAIN object THEN object.components ELSE <<>>

\* The component of the returned agent that carries the given name.
ComponentNamed(h, agent, name) ==
  h[CHOOSE id \in Range(h[agent].components) : h[id].name = name]

StoredPrompt == ComponentNamed(heap, outcome.agent, <<"behaviour constraints">>).state

StoredGoal == ComponentNamed(heap, outcome.agent, <<"overarching goal">>).state

NamesOf(h, ids) == [i \in DOMAIN ids |-> h[ids[i]].name]

ClassesOf(h, ids) == [i \in DOMAIN ids |-> h[ids[i]].cls]

\* C1: whenever a call has ended on a config whose extras lacks
\* 'main_character' or maps it to a falsy value, it ended by raising the
\* role-mismatch error, and no agent object was built.
C1_RoleMismatchRaised ==
  (pc = "done" /\ LacksOrFalsy(inputs.config.extras)) =>
     /\ outcome.kind = "raised"
     /\ outcome.error = RoleMismatch
     /\ \A id \in DOMAIN heap : heap[id].cls # "BasicAgent"

C1_Witness ==
  /\ Raised
  /\ DOMAIN inputs.config.extras = {"gender"}
  /\ outcome.error = RoleMismatch

\* C2: a returned agent built from an empty goal stores the forbidden-fruit
\* template, interpolated with config.name, as its behaviour constraints.
C2_EmptyGoalForbidden ==
  (Returned /\ inputs.config.goal = <<>>) =>
     StoredPrompt = get_prompt_forbidden(inputs.config.name)

\* C3: a returned agent built from a non-empty goal that contains 'money'
\* stores the carpool/appliance template, whether or not the goal contains
\* 'books' too.
C3_MoneyGame ==
  (Returned /\ inputs.config.goal # <<>> /\ Occurs(money, inputs.config.goal)) =>
     StoredPrompt = get_prompt_game(inputs.config.name)

C3_Witness ==
  /\ Returned
  /\ Occurs(books, inputs.config.goal)
  /\ Occurs(money, inputs.config.goal)
  /\ ~ StartsWith(money, inputs.config.goal)
  /\ StoredPrompt = get_prompt_game(inputs.config.name)

\* C4: a returned agent built from a non-empty goal that contains 'books'
\* and not 'money' stores the antique-book template.
C4_BooksLondon ==
  (/\ Returned
   /\ inputs.config.goal # <<>>
   /\ Occurs(books, inputs.config.goal)
   /\ ~ Occurs(money, inputs.config.goal)) =>
     StoredPrompt = get_prompt_london(inputs.config.name)

C4_Witness ==
  /\ Returned
  /\ Occurs(books, inputs.config.goal)
  /\ ~ StartsWith(books, inputs.config.goal)
  /\ ~ Occurs(money, inputs.config.goal)
  /\ StoredPrompt = get_prompt_london(inputs.config.name)

\* C5: a returned agent built from a non-empty goal that contains neither
\* 'money' nor 'books' stores the default template.
C5_OtherDefault ==
  (/\ Returned
   /\ inputs.config.goal # <<>>
   /\ ~ Occurs(money, inputs.config.goal)
   /\ ~ Occurs(books, inputs.config.goal)) =>
     StoredPrompt = get_prompt(inputs.config.name)

C5_Witness ==
  /\ Returned
  /\ inputs.config.goal = <<"m", "o", "n", "x", "e", "y">>
  /\ StoredPrompt = get_prompt(inputs.config.name)

\* C6: a call on a config with a truthy 'main_character' takes exactly one of
\* the four branches, never raises, and ends by returning a BasicAgent with
\* the whole pipeline built.
C6_OnlyRoleMismatchFails ==
  (pc # "idle" /\ ~ LacksOrFalsy(inputs.config.extras)) =>
     /\ BranchTaken(inputs.config.goal) \in 1..4
     /\ outcome.kind # "raised"
     /\ pc = "done" =>
          /\ outcome.kind = "returned"
          /\ heap[outcome.agent].cls = "BasicAgent"
          /\ Len(heap) = 11
          /\ \A id \in DOMAIN heap :
               \A d \in Range(Components(heap[id])) : d \in DOMAIN heap

C6_Witness ==
  /\ Returned
  /\ inputs.config.extras = [main_character |-> "1"]
  /\ inputs.config.goal = <<"x">>
  /\ heap[outcome.agent].cls = "BasicAgent"

\* C7: two completed calls with the same arguments ended the same way and
\* built the same objects with the same component lists, whatever was built
\* before them; and every returned agent lists [instructions, overarching
\* goal, behaviour constraints, information], its 'information' listing
\* [Current time, current observations, summary of observations, relevant
\* memories, available options, best option].
C7_Deterministic ==
  /\ \A a \in DOMAIN history : \A b \in DOMAIN history :
       history[a].inputs = history[b].inputs =>
          /\ history[a].outcome.kind = history[b].outcome.kind
          /\ history[a].heap = history[b].heap
  /\ \A a \in DOMAIN history :
       history[a].outcome.kind = "returned" =>
          LET h    == history[a].heap
              top  == h[history[a].outcome.agent].components
              info == CHOOSE id \in Range(top) : h[id].name = <<"information">>
          IN  /\ NamesOf(h, top) =
                   << <<"instructions">>, <<"overarching goal">>,
                      <<"behaviour constraints">>, <<"information">> >>
              /\ ClassesOf(h, h[info].components) =
                   << "ReportFunction", "Observation", "ObservationSummary",
                      "AllSimilarMemories", "AvailableOptionsPerception",
                      "BestOptionPerception" >>
              /\ NamesOf(h, SubSeq(h[info].components, 1, 4)) =
                   << <<"Current time">>, <<"current observations">>,
                      <<"summary of observations">>, <<"relevant memories">> >>

C7_Witness ==
  /\ Len(history) = 2
  /\ history[1].inputs = history[2].inputs
  /\ history[1].outcome.kind = "returned"
  /\ history[2].outcome.kind = "returned"
  /\ history[2].heap = history[1].heap

\* Whether object `to` is reached from object `from` along component lists in
\* at most `steps` steps (at least one).
RECURSIVE Reaches(_, _, _, _)
Reaches(h, from, to, steps) ==
  /\ steps > 0
  /\ \E d \in Range(Components(h[from])) :
        d = to \/ Reaches(h, d, to, steps - 1)

\* C8: at every point of construction, the names a statement lists as its
\* components are bound to objects already constructed, every component list
\* on the heap holds only objects constructed strictly earlier than its owner,
\* and no object reaches itself along component lists.
C8_ReferencesOnlyEarlier ==
  /\ pc \in Range(Statements) =>
       \A name \in Range(ComponentsArg(pc)) :
          name \in DOMAIN locals /\ locals[name] \in DOMAIN heap
  /\ \A id \in DOMAIN heap :
       \A d \in Range(Components(heap[id])) : d \in 1..(id - 1)
  /\ \A id \in DOMAIN heap : ~ Reaches(heap, id, id, Len(heap))

C8_Witness ==
  /\ Returned
  /\ Len(heap[locals["best_option_perception"]].components) = 6
  /\ Len(heap[outcome.agent].components) = 4
  /\ Reaches(heap, outcome.agent, locals["current_obs"], Len(heap))

\* C9: a call that raised the role-mismatch error bound no local, built no
\* object and invoked no external callable; a prompt is selected only after
\* the check has passed, objects are built and callables invoked only after
\* the prompt is selected, and the agent is wrapped only after every
\* component is built.
C9_RoleCheckFirst ==
  /\ (Raised /\ outcome.error = RoleMismatch) =>
        /\ DOMAIN locals = {}
        /\ heap = <<>>
        /\ calls = <<>>
  /\ (DOMAIN locals # {} \/ heap # <<>> \/ calls # <<>>) =>
        ~ LacksOrFalsy(inputs.config.extras)
  /\ (heap # <<>> \/ calls # <<>>) => "full_prompt" \in DOMAIN locals
  /\ "agent" \in DOMAIN locals =>
        /\ Len(heap) = 11
        /\ locals["agent"] = 11
        /\ \A id \in 1..10 : heap[id].cls # "BasicAgent"

C9_Witness ==
  /\ Raised
  /\ outcome.error = RoleMismatch
  /\ inputs.config.extras = [main_character |-> "False", gender |-> "True"]
  /\ heap = <<>>
  /\ calls = <<>>

\* C10: no call takes the first branch, so the prompt selected is only ever the
\* carpool/appliance, antique-book or default template; an agent built from
\* the empty goal stores the default template, and 'overarching goal' holds
\* config.goal unchanged.
C10_ForbiddenNeverSelected ==
  /\ pc # "idle" => BranchTaken(inputs.config.goal) \in 2..4
  /\ "full_prompt" \in DOMAIN locals =>
        /\ locals["full_prompt"] \in
             { get_prompt_game(inputs.config.name),
               get_prompt_london(inputs.config.name),
               get_prompt(inputs.config.name) }
        /\ locals["full_prompt"] # get_prompt_forbidden(inputs.config.name)
  /\ Returned =>
        /\ inputs.config.goal = <<>> =>
              StoredPrompt = get_prompt(inputs.config.name)
        /\ StoredGoal = inputs.config.goal

C10_Witness ==
  /\ Returned
  /\ inputs.config.goal = <<>>
  /\ StoredPrompt = get_prompt(inputs.config.name)
  /\ StoredGoal = <<>>

====
